---- MODULE Spec2Model ----
(***************************************************************************)
(* xml_to_csv: the path expression language (xml_path.rs), the extraction  *)
(* of a value from an XML tree (main.rs, extract_from_xml) and the loop    *)
(* that resolves the configured columns of every document and writes the   *)
(* CSV (main.rs, run).                                                     *)
(*                                                                         *)
(* A Rust string is a sequence of one-character strings: "a.1" is          *)
(* <<"a", ".", "1">>.  A usize is its sequence of decimal digits, most     *)
(* significant first and without leading zeros (0 is <<0>>), so that the   *)
(* 64-bit range of usize is exact although TLC's integers are 32 bits.     *)
(***************************************************************************)
EXTENDS Integers, Sequences, FiniteSets, TLC

VARIABLES
    \* ---- xml_path.rs: one path string parsed, serialized and parsed again
    s,          \* the path string handed to Path::try_from
    parts,      \* Path.parts after Path::try_from(s)
    ser,        \* Path::parts_to_string(parts)
    reparsed,   \* Path::try_from(ser).parts
    ppc,        \* position of the parse / serialize / parse sequence
    \* ---- extract_from_xml and the value of one column of one document
    xml,        \* the root xmltree::Element
    column,     \* the CsvColumn the value is extracted for
    item_path,  \* item.path() of the document
    res,        \* the Result<String, _> extract_from_xml returned
    value,      \* the value of the column, or the error run returns
    xpc,        \* position of the call
    \* ---- run: the conversion of a directory of documents
    config,     \* Config.csv_columns
    dir,        \* the files std::fs::read_dir yields, in order
    filter,     \* Args.filter
    pc,         \* position in run
    di,         \* number of directory entries taken from the iterator
    ci,         \* number of columns of the current document written
    buf,        \* csv_writter: what was written and not yet flushed
    file,       \* the content of the csv file
    result      \* what run returned

pathVars == <<s, parts, ser, reparsed, ppc>>
extractVars == <<xml, column, item_path, res, value, xpc>>
runVars == <<config, dir, filter, pc, di, ci, buf, file, result>>
vars == <<s, parts, ser, reparsed, ppc, xml, column, item_path, res, value, xpc,
          config, dir, filter, pc, di, ci, buf, file, result>>

(***************************************************************************)
(* Bounds of the model.                                                    *)
(***************************************************************************)
MaxLen == 4         \* longest enumerated path string, in characters
MaxSegs == 2        \* most segments of an enumerated path of a column
MaxNodes == 3       \* most nodes below the root of an enumerated tree
MaxCols == 2        \* most configured columns
MaxDocs == 2        \* most directory entries

(***************************************************************************)
(* Strings and usize.                                                      *)
(***************************************************************************)
Digits == <<"0", "1", "2", "3", "4", "5", "6", "7", "8", "9">>

IsDigit(c) == \E d \in 1..10 : Digits[d] = c

\* char::to_digit(10) of a decimal digit
to_digit(c) == (CHOOSE d \in 1..10 : Digits[d] = c) - 1

\* usize::MAX on a 64-bit target, 18446744073709551615
USIZE_MAX == <<1, 8, 4, 4, 6, 7, 4, 4, 0, 7, 3, 7, 0, 9, 5, 5, 1, 6, 1, 5>>

\* a > b for two usize digit sequences
UsizeGt(a, b) ==
    \/ Len(a) > Len(b)
    \/ /\ Len(a) = Len(b)
       /\ \E i \in 1..Len(a) : a[i] > b[i] /\ \A j \in 1..(i - 1) : a[j] = b[j]

\* v * 10 + d, before the overflow check
UsizeMulAdd(v, d) == IF v = <<0>> THEN <<d>> ELSE Append(v, d)

\* the digits of src[i..] accumulated onto acc: checked_mul(10), checked_add(d)
RECURSIVE ParseDigits(_, _, _)
ParseDigits(src, i, acc) ==
    IF i > Len(src) THEN [ok |-> TRUE, val |-> acc]
    ELSE IF ~IsDigit(src[i]) THEN [ok |-> FALSE, val |-> <<0>>]   \* InvalidDigit
    ELSE LET next == UsizeMulAdd(acc, to_digit(src[i]))
         IN  IF UsizeGt(next, USIZE_MAX)
             THEN [ok |-> FALSE, val |-> <<0>>]                    \* PosOverflow
             ELSE ParseDigits(src, i + 1, next)

\* a mutant of usize_from_str: a token that starts with digits is a number
usize_from_str_prefix(src) ==
    IF src = <<>> \/ ~IsDigit(src[1]) THEN [ok |-> FALSE, val |-> <<0>>]
    ELSE [ok |-> TRUE, val |-> <<to_digit(src[1])>>]

\* usize::from_str (core::num, from_str_radix with radix 10 for an unsigned type)
usize_from_str(src) ==
    IF src = <<>> THEN [ok |-> FALSE, val |-> <<0>>]               \* Empty
    ELSE IF src = <<"+">> \/ src = <<"-">> THEN [ok |-> FALSE, val |-> <<0>>]
    ELSE IF src[1] = "+" THEN ParseDigits(src, 2, <<0>>)
    ELSE ParseDigits(src, 1, <<0>>)

\* format!("{}", index) of a usize
usize_to_string(v) == [i \in 1..Len(v) |-> Digits[v[i] + 1]]

\* the usize of a small natural number (a Vec length)
RECURSIVE NatToUsize(_)
NatToUsize(n) == IF n < 10 THEN <<n>> ELSE Append(NatToUsize(n \div 10), n % 10)

(***************************************************************************)
(* xml_path.rs                                                             *)
(***************************************************************************)
\* PathPart::Element(name) and PathPart::Index(index)
Element(name) == [tag |-> "Element", name |-> name, index |-> <<0>>]
Index(index) == [tag |-> "Index", name |-> <<>>, index |-> index]

\* str::split('.'): the tokens of src[i..], cur being the token in progress
RECURSIVE SplitFrom(_, _, _)
SplitFrom(src, i, cur) ==
    IF i > Len(src) THEN <<cur>>
    ELSE IF src[i] = "." THEN <<cur>> \o SplitFrom(src, i + 1, <<>>)
    ELSE SplitFrom(src, i + 1, Append(cur, src[i]))

split(src) == SplitFrom(src, 1, <<>>)

\* usize::from_str(part).map(PathPart::Index).unwrap_or(PathPart::Element(part))
ParsePart(part) ==
    LET n == usize_from_str(part)
    IN  IF n.ok THEN Index(n.val) ELSE Element(part)

\* impl TryFrom<&str> for Path, impl TryFrom<String> for Path: always Ok
try_from(src) ==
    LET toks == split(src)
    IN  [i \in 1..Len(toks) |-> ParsePart(toks[i])]

\* a mutant of parts_to_string: the segments are not separated
RECURSIVE parts_to_string_nodot(_)
parts_to_string_nodot(ps) ==
    IF ps = <<>> THEN <<>>
    ELSE (IF ps[1].tag = "Element" THEN ps[1].name ELSE usize_to_string(ps[1].index))
         \o parts_to_string_nodot(Tail(ps))

\* Path::parts_to_string, also Path::to_string and the serializer
RECURSIVE parts_to_string(_)
parts_to_string(ps) ==
    IF ps = <<>> THEN <<>>
    ELSE (IF ps[1].tag = "Element" THEN ps[1].name ELSE usize_to_string(ps[1].index))
         \o (IF Len(ps) # 1 THEN <<".">> ELSE <<>>)
         \o parts_to_string(Tail(ps))

(***************************************************************************)
(* xmltree: an Element has a name, attributes and child nodes; a child     *)
(* node (XMLNode) is an Element, a Text or a CData.                        *)
(***************************************************************************)
\* the attributes are a set of <<name, value>> pairs, at most one per name
Elem(name, attributes, children) ==
    [kind |-> "Element", name |-> name, attributes |-> attributes,
     children |-> children, text |-> <<>>]
Text(text) ==
    [kind |-> "Text", name |-> <<>>, attributes |-> {}, children |-> <<>>, text |-> text]
CData(text) ==
    [kind |-> "CData", name |-> <<>>, attributes |-> {}, children |-> <<>>, text |-> text]

\* Option: Some(v) and None
Some(v) == [some |-> TRUE, v |-> v]
None == [some |-> FALSE, v |-> <<>>]

\* Result<String, Box<dyn Error>>: the error is the message, its text and arguments
NoErr == [kind |-> "", a |-> <<>>, b |-> <<>>]
Ok(v) == [ok |-> TRUE, val |-> v, err |-> NoErr]
Err(kind, a, b) == [ok |-> FALSE, val |-> <<>>, err |-> [kind |-> kind, a |-> a, b |-> b]]

\* Element::get_child: the first child element of that name
get_child(element, name) ==
    LET hits == {i \in 1..Len(element.children) :
                    /\ element.children[i].kind = "Element"
                    /\ element.children[i].name = name}
    IN  IF hits = {} THEN None
        ELSE Some(element.children[CHOOSE i \in hits : \A j \in hits : i <= j])

RECURSIVE ConcatTexts(_)
ConcatTexts(nodes) ==
    IF nodes = <<>> THEN <<>> ELSE nodes[1].text \o ConcatTexts(Tail(nodes))

\* Element::get_text: the Text and CData children concatenated, None without any
get_text(element) ==
    LET text_nodes == SelectSeq(element.children, LAMBDA n : n.kind \in {"Text", "CData"})
    IN  IF text_nodes = <<>> THEN None ELSE Some(ConcatTexts(text_nodes))

\* HashMap::get on Element::attributes
attributes_get(element, name) ==
    IF \E p \in element.attributes : p[1] = name
    THEN Some((CHOOSE p \in element.attributes : p[1] = name)[2])
    ELSE None

\* the natural number of a usize known to be below a Vec length
RECURSIVE UsizeToNat(_)
UsizeToNat(v) ==
    IF Len(v) = 1 THEN v[1] ELSE UsizeToNat(SubSeq(v, 1, Len(v) - 1)) * 10 + v[Len(v)]

\* Vec::get on Element::children
children_get(element, index) ==
    IF UsizeGt(NatToUsize(Len(element.children)), index)
    THEN Some(element.children[UsizeToNat(index) + 1])
    ELSE None

\* a mutant of children_len: only the element children are counted
children_len_elements(element) ==
    Len(SelectSeq(element.children, LAMBDA n : n.kind = "Element"))

\* a mutant of children_len: the text of the element is not counted
children_len_without_text(element) ==
    Len(SelectSeq(element.children, LAMBDA n : n.kind \notin {"Text", "CData"}))

\* element.children.len()
children_len(element) == Len(element.children)

(***************************************************************************)
(* main.rs: extract_from_xml                                               *)
(***************************************************************************)
\* PathType: PathText(path), PathLen(path), PathAttr(path)
PathType(mode, path) == [mode |-> mode, parts |-> path]

\* a mutant of follow_last: the attribute name is followed like a segment
follow_last_always(mode) == TRUE

\* main.rs 164-168
follow_last(mode) == mode \in {"PathText", "PathLen"}

\* main.rs 172-176: the segments the loop follows
TraversedParts(pt) ==
    IF follow_last(pt.mode) THEN pt.parts
    ELSE SubSeq(pt.parts, 1, Len(pt.parts) - 1)

\* main.rs 178-197: the loop over the segments, from segment i on; Ok carries
\* the element reached in val
RECURSIVE Traverse(_, _, _, _)
Traverse(element, ps, i, path) ==
    IF i > Len(ps) THEN Ok(element)
    ELSE IF ps[i].tag = "Element"
    THEN LET c == get_child(element, ps[i].name)
         IN  IF c.some THEN Traverse(c.v, ps, i + 1, path)
             ELSE Err("Cannot find node", ps[i].name, parts_to_string(path))
    ELSE LET c == children_get(element, ps[i].index)
         IN  IF ~c.some
             THEN Err("Cannog get child node", usize_to_string(ps[i].index), <<>>)
             ELSE IF c.v.kind # "Element"
             THEN Err("The item at the index is not an element",
                      usize_to_string(ps[i].index), <<>>)
             ELSE Traverse(c.v, ps, i + 1, path)

\* a mutant of FinalRead: an index as attribute name reads nothing and succeeds
FinalRead_index_ok(element, pt) ==
    IF pt.mode = "PathText"
    THEN LET t == get_text(element)
         IN  IF t.some THEN Ok(t.v)
             ELSE Err("Failed to get text from", parts_to_string(pt.parts), <<>>)
    ELSE IF pt.mode = "PathLen"
    THEN Ok(usize_to_string(NatToUsize(children_len(element))))
    ELSE LET last == pt.parts[Len(pt.parts)]
             a == attributes_get(element, last.name)
         IN  IF a.some THEN Ok(a.v)
             ELSE IF last.tag = "Index" THEN Ok(<<>>)
             ELSE Err("Failed to get attribute from path", parts_to_string(pt.parts), <<>>)

\* main.rs 199-222: the read on the element reached
FinalRead(element, pt) ==
    IF pt.mode = "PathText"
    THEN LET t == get_text(element)
         IN  IF t.some THEN Ok(t.v)
             ELSE Err("Failed to get text from", parts_to_string(pt.parts), <<>>)
    ELSE IF pt.mode = "PathLen"
    THEN Ok(usize_to_string(NatToUsize(children_len(element))))
    ELSE IF pt.parts = <<>> THEN Err("Paths need at least one part", <<>>, <<>>)
    ELSE LET last == pt.parts[Len(pt.parts)]
         IN  IF last.tag = "Element"
             THEN LET a == attributes_get(element, last.name)
                  IN  IF a.some THEN Ok(a.v)
                      ELSE Err("Failed to get attribute from path",
                               parts_to_string(pt.parts), <<>>)
             ELSE Err("Cannot use an index for attributes", <<>>, <<>>)

\* main.rs 160-223
extract_from_xml(root, pt) ==
    LET reached == Traverse(root, TraversedParts(pt), 1, pt.parts)
    IN  IF reached.ok THEN FinalRead(reached.val, pt) ELSE reached

(***************************************************************************)
(* config.rs: a CsvColumn is a title and a ColumnType.                     *)
(***************************************************************************)
\* ColumnType::ExtractXmlPath { path, default }
ExtractXmlPath(title, path, default) ==
    [title |-> title, type |-> "ExtractXmlPath", path |-> path,
     default |-> default, text |-> <<>>]
\* ColumnType::Text { text }
TextColumn(title, text) ==
    [title |-> title, type |-> "Text", path |-> PathType("PathText", <<>>),
     default |-> None, text |-> text]
\* ColumnType::Intrinsic { intrinsic: Intrinsic::FilePath }
IntrinsicFilePath(title) ==
    [title |-> title, type |-> "Intrinsic", path |-> PathType("PathText", <<>>),
     default |-> None, text |-> <<>>]

\* what run returned: nothing yet, Ok(()), or the error: the message, its
\* argument and the error it wraps
NotReturned == [ok |-> FALSE, val |-> <<>>, err |-> NoErr]
RunErr(kind, a, cause) == [ok |-> FALSE, val |-> <<>>, err |-> [kind |-> kind, a |-> a, b |-> cause]]

\* a mutant of ExtractedValue: the default replaces the extracted value too
ExtractedValue_default_always(col, r, path) ==
    IF col.default.some THEN Ok(col.default.v)
    ELSE IF r.ok THEN Ok(r.val)
    ELSE RunErr("Failed to extract column from xml file", path, r.err)

\* main.rs 127-137: the value of an ExtractXmlPath column from the result r of
\* extract_from_xml, for the document at path
ExtractedValue(col, r, path) ==
    IF col.default.some
    THEN IF r.ok THEN Ok(r.val) ELSE Ok(col.default.v)
    ELSE IF r.ok THEN Ok(r.val)
         ELSE RunErr("Failed to extract column from xml file", path, r.err)

\* main.rs 124-145: the value of a column for the document tree at path
ColumnValue(col, tree, path) ==
    IF col.type = "ExtractXmlPath"
    THEN ExtractedValue(col, extract_from_xml(tree, col.path), path)
    ELSE IF col.type = "Text" THEN Ok(col.text)
    ELSE Ok(path)

(***************************************************************************)
(* Inputs.                                                                 *)
(***************************************************************************)
\* the sequences over S of length at most n
SeqsUpTo(S, n) == UNION {[1..k -> S] : k \in 0..n}

\* the characters of the enumerated path strings
Alphabet == {"a", "0", "1", "+", "-", "."}

\* path strings beyond the enumerated lengths: the example of the path syntax,
\* usize::MAX, usize::MAX + 1 and usize::MAX behind a zero
EdgeStrings ==
    { <<"a", ".", "1", ".", "b">>,
      <<"i", "t", "e", "m", ".", "i", "d">>,
      usize_to_string(USIZE_MAX),
      <<"a", ".">> \o usize_to_string(SubSeq(USIZE_MAX, 1, 19)) \o <<"6">>,
      <<"0">> \o usize_to_string(USIZE_MAX) \o <<".", "+", "0", "7">> }

PathStrings == SeqsUpTo(Alphabet, MaxLen) \cup EdgeStrings

(***************************************************************************)
(* A path string is parsed, serialized and parsed again: what serde does   *)
(* with a Path (de, ser) and what Path::to_string does in the messages.    *)
(***************************************************************************)
PathIdle ==
    /\ s = <<>> /\ parts = <<>> /\ ser = <<>> /\ reparsed = <<>> /\ ppc = "off"

ExtractIdle ==
    /\ xml = Elem(<<>>, {}, <<>>) /\ column = TextColumn(<<>>, <<>>)
    /\ item_path = <<>> /\ res = Ok(<<>>) /\ value = Ok(<<>>) /\ xpc = "off"

RunIdle ==
    /\ config = <<>> /\ dir = <<>> /\ filter = FALSE
    /\ pc = "off" /\ di = 0 /\ ci = 0 /\ buf = <<>> /\ file = <<>>
    /\ result = NotReturned

PathInit ==
    /\ s \in PathStrings
    /\ parts = <<>> /\ ser = <<>> /\ reparsed = <<>> /\ ppc = "start"

\* de: Path::try_from(v).map(|v| v.parts)
Parse ==
    /\ ppc = "start"
    /\ parts' = try_from(s)
    /\ ppc' = "parsed"
    /\ UNCHANGED <<s, ser, reparsed, extractVars, runVars>>

\* ser: Path::parts_to_string(parts)
Serialize ==
    /\ ppc = "parsed"
    /\ ser' = parts_to_string(parts)
    /\ ppc' = "serialized"
    /\ UNCHANGED <<s, parts, reparsed, extractVars, runVars>>

\* de on what ser wrote
Reparse ==
    /\ ppc = "serialized"
    /\ reparsed' = try_from(ser)
    /\ ppc' = "reparsed"
    /\ UNCHANGED <<s, parts, ser, extractVars, runVars>>

InitPath == PathInit /\ ExtractIdle /\ RunIdle
NextPath == Parse \/ Serialize \/ Reparse
SpecPath == InitPath /\ [][NextPath]_vars

(***************************************************************************)
(* The claims about the path language, checked under SpecPath.             *)
(***************************************************************************)
\* the positions of the dots of a string, its number of dot-separated tokens
\* and its k-th token
Dots(str) == {i \in 1..Len(str) : str[i] = "."}
NTokens(str) == Cardinality(Dots(str)) + 1
KthDot(str, k) == CHOOSE i \in Dots(str) : Cardinality({j \in Dots(str) : j < i}) = k - 1
Token(str, k) ==
    SubSeq(str,
           IF k = 1 THEN 1 ELSE KthDot(str, k - 1) + 1,
           IF k = NTokens(str) THEN Len(str) ELSE KthDot(str, k) - 1)

\* a non-empty token of decimal digits only
IsDecimal(t) == t # <<>> /\ \A i \in 1..Len(t) : IsDigit(t[i])
\* a token without its leading plus sign, if it has one
Unsigned(t) == IF t # <<>> /\ t[1] = "+" THEN Tail(t) ELSE t
\* a decimal token without its leading zeros
RECURSIVE StripZeros(_)
StripZeros(t) == IF Len(t) > 1 /\ t[1] = "0" THEN StripZeros(Tail(t)) ELSE t
\* the number a decimal token writes
ValueOf(t) == LET d == StripZeros(t) IN [i \in 1..Len(d) |-> to_digit(d[i])]
\* the tokens the code makes an Index
AcceptedAsIndex(t) ==
    /\ IsDecimal(Unsigned(t))
    /\ ~UsizeGt(ValueOf(Unsigned(t)), USIZE_MAX)

Parsed == ppc \in {"parsed", "serialized", "reparsed"}

\* C6 as stated: parsing is total, yields one segment per dot-separated token
\* and at least one, and a token becomes an Index if and only if it is a
\* non-negative base-10 integer with no other characters, otherwise the
\* ElementName of the token.
C6_AsStated ==
    Parsed =>
        /\ Len(parts) = NTokens(s)
        /\ \A k \in 1..Len(parts) :
              IF IsDecimal(Token(s, k))
              THEN parts[k] = Index(ValueOf(Token(s, k)))
              ELSE parts[k] = Element(Token(s, k))

\* C6 amended: parsing is total, yields one segment per dot-separated token and
\* so at least one (the empty string yields ElementName("")); a token becomes
\* Index(n) if and only if it is an optional "+" followed by one or more decimal
\* digits whose value n is at most usize::MAX, and otherwise becomes the
\* ElementName of the token ("1a", "-1", "+" and a 20-digit number above
\* usize::MAX are names); parse("a.1.b") is [ElementName a, Index 1, ElementName b].
C6_ParseClassifies ==
    Parsed =>
        /\ Len(parts) = NTokens(s)
        /\ Len(parts) >= 1
        /\ \A k \in 1..Len(parts) :
              IF AcceptedAsIndex(Token(s, k))
              THEN parts[k] = Index(ValueOf(Unsigned(Token(s, k))))
              ELSE parts[k] = Element(Token(s, k))
        /\ s = <<>> => parts = <<Element(<<>>)>>
        /\ s = <<"1", "a">> => parts = <<Element(<<"1", "a">>)>>
        /\ s = <<"a", ".", "1", ".", "b">> =>
              parts = <<Element(<<"a">>), Index(<<1>>), Element(<<"b">>)>>

\* C6 witness: a signed token was parsed into an Index next to a name
C6_Witness ==
    /\ ppc = "parsed"
    /\ s = <<"+", "1", ".", "a">>
    /\ parts = <<Index(<<1>>), Element(<<"a">>)>>

\* C7: serializing a parsed path and parsing the result gives the parsed path
\* again: parse(serialize(parse(s))) = parse(s).
C7_RoundTrip == ppc = "reparsed" => reparsed = parts

\* C7 witness: a path with an index whose serialization differs from the
\* string it was parsed from went through the round trip
C7_Witness ==
    /\ ppc = "reparsed"
    /\ ser # s
    /\ Len(parts) >= 2
    /\ \E k \in 1..Len(parts) : parts[k].tag = "Index"

(***************************************************************************)
(* One column of one document: extract_from_xml on a tree and a path, then *)
(* the default of the column.                                              *)
(***************************************************************************)
\* the names, attribute sets and text of the enumerated trees
Names == {<<"a">>}
AttrSets == {{}, {<<<<"b">>, <<"7">>>>}}
Hi == <<"h", "i">>

\* Forests(n): the child lists of n nodes in all, descendants included;
\* NodesOfSize(k): the nodes that are k nodes in all
RECURSIVE Forests(_), NodesOfSize(_)
NodesOfSize(k) ==
    (IF k = 1 THEN {Text(Hi)} ELSE {})
    \cup {Elem(n, a, c) : n \in Names, a \in AttrSets, c \in Forests(k - 1)}
Forests(n) ==
    IF n = 0 THEN {<<>>}
    ELSE UNION {{<<x>> \o f : x \in NodesOfSize(k), f \in Forests(n - k)} : k \in 1..n}

\* <root><item id="7">hi</item></root>
ItemDoc ==
    Elem(<<"r", "o", "o", "t">>, {},
         <<Elem(<<"i", "t", "e", "m">>, {<<<<"i", "d">>, <<"7">>>>}, <<Text(Hi)>>)>>)

\* trees beyond the enumerated sizes: ItemDoc, and a root whose child has two
\* element children around a text node, the second one holding a CData and a Text
EdgeTrees ==
    { ItemDoc,
      Elem(<<"r", "o", "o", "t">>, {},
           <<Elem(<<"a">>, {},
                  <<Elem(<<"a">>, {}, <<>>), Text(Hi),
                    Elem(<<"a">>, {}, <<CData(<<"c">>), Text(Hi)>>)>>)>>) }

Trees ==
    {Elem(<<"r", "o", "o", "t">>, a, c) :
        a \in AttrSets, c \in UNION {Forests(n) : n \in 0..MaxNodes}}
    \cup EdgeTrees

\* the path strings of the columns: up to MaxSegs tokens joined by dots
SegTokens == {<<"a">>, <<"b">>, <<"0">>, <<"1">>}
RECURSIVE Join(_)
Join(toks) ==
    IF Len(toks) = 1 THEN toks[1] ELSE toks[1] \o <<".">> \o Join(Tail(toks))
ColumnPathStrings ==
    {Join(toks) : toks \in SeqsUpTo(SegTokens, MaxSegs) \ {<<>>}}
    \cup {<<"i", "t", "e", "m">>, <<"i", "t", "e", "m", ".", "i", "d">>}

Modes == {"PathText", "PathLen", "PathAttr"}
\* the paths of the columns, as the deserializer builds them
ColumnPaths == {PathType(m, try_from(p)) : m \in Modes, p \in ColumnPathStrings}
Defaults == {None, Some(<<"d">>)}
FileOne == <<"1", ".", "x", "m", "l">>

ExtractInit ==
    /\ xml \in Trees
    /\ column \in {ExtractXmlPath(<<"t">>, p, d) : p \in ColumnPaths, d \in Defaults}
    /\ item_path = FileOne
    /\ res = Ok(<<>>) /\ value = Ok(<<>>) /\ xpc = "start"

\* main.rs 126: let res = extract_from_xml(&xml, path)
Extract ==
    /\ xpc = "start"
    /\ res' = extract_from_xml(xml, column.path)
    /\ xpc' = "extracted"
    /\ UNCHANGED <<xml, column, item_path, value, pathVars, runVars>>

\* main.rs 127-137: the default, or the error of the run
Resolve ==
    /\ xpc = "extracted"
    /\ value' = ExtractedValue(column, res, item_path)
    /\ xpc' = "resolved"
    /\ UNCHANGED <<xml, column, item_path, res, pathVars, runVars>>

InitExtract == PathIdle /\ ExtractInit /\ RunIdle
NextExtract == Extract \/ Resolve
SpecExtract == InitExtract /\ [][NextExtract]_vars

(***************************************************************************)
(* The claims about extraction, checked under SpecExtract.                 *)
(***************************************************************************)
\* the child node a segment leads to from a node, if there is one
Child(node, seg) ==
    IF seg.tag = "Element"
    THEN LET named == {i \in 1..Len(node.children) :
                          /\ node.children[i].kind = "Element"
                          /\ node.children[i].name = seg.name}
         IN  IF named = {} THEN None
             ELSE Some(node.children[CHOOSE i \in named : \A j \in named : i <= j])
    ELSE LET at == {i \in 1..Len(node.children) : NatToUsize(i - 1) = seg.index}
         IN  IF at = {} THEN None
             ELSE LET n == node.children[CHOOSE i \in at : TRUE]
                  IN  IF n.kind = "Element" THEN Some(n) ELSE None

\* the node the segments lead to from a node, if every one can be followed
RECURSIVE Reach(_, _)
Reach(node, segs) ==
    IF segs = <<>> THEN Some(node)
    ELSE LET c == Child(node, segs[1])
         IN  IF c.some THEN Reach(c.v, Tail(segs)) ELSE None

\* the decimal rendering of a natural number
RECURSIVE Decimal(_)
Decimal(n) ==
    IF n < 10 THEN <<Digits[n + 1]>> ELSE Decimal(n \div 10) \o <<Digits[(n % 10) + 1]>>

Extracted == xpc \in {"extracted", "resolved"}
PathParts == column.path.parts
Prefix == SubSeq(PathParts, 1, Len(PathParts) - 1)
LastPart == PathParts[Len(PathParts)]
IndexForAttribute == Err("Cannot use an index for attributes", <<>>, <<>>)

\* C2 as stated: an Attr path whose last segment is an Index fails with
\* "Cannot use an index for attributes" whatever the tree.
C2_AsStated ==
    (Extracted /\ column.path.mode = "PathAttr" /\ LastPart.tag = "Index")
        => res = IndexForAttribute

\* C2 amended: an Attr path whose last segment is an Index always fails; it
\* fails with "Cannot use an index for attributes" whenever the segments before
\* the last can all be followed, whether or not a child exists at that index,
\* and with the error of the traversal (node not found, no child at the index,
\* child not an element) when one of them cannot.
C2_IndexAsAttribute ==
    (Extracted /\ column.path.mode = "PathAttr" /\ LastPart.tag = "Index")
        => /\ ~res.ok
           /\ Reach(xml, Prefix).some => res = IndexForAttribute
           /\ ~Reach(xml, Prefix).some =>
                 res.err.kind \in {"Cannot find node", "Cannog get child node",
                                   "The item at the index is not an element"}

\* C2 witness: the prefix was followed to a node that has an element child at
\* the index, and the extraction failed
C2_Witness ==
    /\ Extracted /\ column.path.mode = "PathAttr" /\ LastPart.tag = "Index"
    /\ Len(PathParts) = 2
    /\ Reach(xml, PathParts).some
    /\ res = IndexForAttribute

\* C3: the value of a path column is the extracted string when the extraction
\* succeeds; when it fails, whatever the error, it is the default if there is
\* one, and otherwise an error that carries the path of the document's file.
C3_Resolve ==
    xpc = "resolved" =>
        /\ res.ok => value = Ok(res.val)
        /\ (~res.ok /\ column.default.some) => value = Ok(column.default.v)
        /\ (~res.ok /\ ~column.default.some) =>
              /\ ~value.ok
              /\ value.err.kind = "Failed to extract column from xml file"
              /\ value.err.a = item_path
              /\ value.err.b = res.err

\* C3 witness: Text mode reached a node without text and the default was taken
C3_Witness ==
    /\ xpc = "resolved"
    /\ column.path.mode = "PathText"
    /\ res.err.kind = "Failed to get text from"
    /\ column.default.some
    /\ value = Ok(column.default.v)

\* C8: Len mode, once the whole path leads to a node, succeeds with the decimal
\* number of all the child nodes of that node, text nodes included.
C8_LenCountsAll ==
    (Extracted /\ column.path.mode = "PathLen" /\ Reach(xml, PathParts).some)
        => res = Ok(Decimal(Len(Reach(xml, PathParts).v.children)))

\* C8 witness: the node reached has two element children and one text node
C8_Witness ==
    /\ Extracted /\ column.path.mode = "PathLen"
    /\ Reach(xml, PathParts).some
    /\ LET cs == Reach(xml, PathParts).v.children
       IN  /\ Len(cs) = 3
           /\ Cardinality({i \in 1..3 : cs[i].kind = "Element"}) = 2
           /\ Cardinality({i \in 1..3 : cs[i].kind = "Text"}) = 1
    /\ res = Ok(<<"3">>)

ItemLen == PathType("PathLen", <<Element(<<"i", "t", "e", "m">>)>>)

\* C9 as stated: for <root><item id="7">hi</item></root>, the path "item" in
\* Len mode yields "0".
C9_AsStated ==
    (Extracted /\ xml = ItemDoc /\ column.path = ItemLen) => res = Ok(<<"0">>)

\* C9 amended: for <root><item id="7">hi</item></root>, the path "item" in Len
\* mode yields "1": the text of the element is a child node and is counted.
C9_ItemLen ==
    (Extracted /\ xml = ItemDoc /\ column.path = ItemLen) => res = Ok(<<"1">>)

\* C9 witness: that extraction was made
C9_Witness ==
    /\ Extracted /\ xml = ItemDoc /\ column.path = ItemLen /\ res = Ok(<<"1">>)

\* the text of a node, and an attribute of a node
TextOf(node) ==
    LET ts == {i \in 1..Len(node.children) : node.children[i].kind \in {"Text", "CData"}}
    IN  IF ts = {} THEN None
        ELSE Some(ConcatTexts(SelectSeq(node.children,
                                        LAMBDA n : n.kind \in {"Text", "CData"})))
AttrOf(node, name) == {p[2] : p \in {q \in node.attributes : q[1] = name}}

\* C10: in Text and Len mode every segment is followed and the read is made on
\* the node reached after the whole path; in Attr mode the segments before the
\* last are followed and the last, a name, is the attribute read on the node
\* they lead to, "Failed to get attribute" if it has none of that name.  A
\* one-segment Attr path reads the attribute of the root, and "item.id" on
\* <root><item id="7">hi</item></root> yields "7".
C10_TraversalPrefix ==
    Extracted =>
        /\ column.path.mode = "PathText" =>
              LET n == Reach(xml, PathParts)
              IN  /\ res.ok <=> (n.some /\ TextOf(n.v).some)
                  /\ res.ok => res.val = TextOf(n.v).v
        /\ column.path.mode = "PathLen" =>
              LET n == Reach(xml, PathParts)
              IN  /\ res.ok <=> n.some
                  /\ res.ok => res.val = Decimal(Len(n.v.children))
        /\ (column.path.mode = "PathAttr" /\ LastPart.tag = "Element") =>
              LET n == Reach(xml, Prefix)
              IN  /\ res.ok <=> (n.some /\ AttrOf(n.v, LastPart.name) # {})
                  /\ res.ok => res.val \in AttrOf(n.v, LastPart.name)
                  /\ (n.some /\ ~res.ok) =>
                        res.err.kind = "Failed to get attribute from path"
                  /\ (Len(PathParts) = 1 /\ res.ok) =>
                        res.val \in AttrOf(xml, LastPart.name)
        /\ (xml = ItemDoc /\ column.path.mode = "PathAttr"
              /\ PathParts = <<Element(<<"i", "t", "e", "m">>), Element(<<"i", "d">>)>>)
              => res = Ok(<<"7">>)

\* C10 witness: an Attr path of two names read the attribute of a child that
\* has no child of the attribute's name
C10_Witness ==
    /\ Extracted /\ column.path.mode = "PathAttr"
    /\ Len(PathParts) = 2 /\ LastPart.tag = "Element"
    /\ Reach(xml, Prefix).some
    /\ ~Reach(xml, PathParts).some
    /\ res = Ok(<<"7">>)

(***************************************************************************)
(* main.rs: run, from the csv file created (line 79) to the return.  The   *)
(* csv::Writer keeps what is written in its buffer and flushes it to the   *)
(* file when it is dropped, which is when run returns, with Ok or with an  *)
(* error; the 8 KiB of the buffer are never filled by the values here.     *)
(* What is written is a sequence of fields and record terminators.         *)
(***************************************************************************)
Field(v) == [kind |-> "field", v |-> v]
Terminator == [kind |-> "terminator", v |-> <<>>]

\* csv::Writer::write_field
write_field(b, v) == Append(b, Field(v))

\* a mutant of write_record: the record is not terminated
write_record_nothing(b) == b

\* csv::Writer::write_record(None): the fields written so far end as a record;
\* every record has as many fields as the first, so none is refused
write_record(b) == Append(b, Terminator)

\* Path::extension of a file name: what follows its last dot, if it has one
\* after its first character
Extension(path) ==
    LET dots == {i \in 2..Len(path) : path[i] = "."}
    IN  IF dots = {} THEN None
        ELSE Some(SubSeq(path, (CHOOSE i \in dots : \A j \in dots : j <= i) + 1, Len(path)))

\* main.rs 95-104: the entry is skipped
Skipped(entry) ==
    /\ filter
    /\ Extension(entry.path).some
    /\ Extension(entry.path).v # <<"x", "m", "l">>

\* the files of the directory: a path and what opening and parsing it gives
FileThree == <<"3">>
FileNotXml == <<"2", ".", "t", "x", "t">>
GoodTree ==
    Elem(<<"r", "o", "o", "t">>, {}, <<Elem(<<"a">>, {<<<<"b">>, <<"7">>>>}, <<Text(Hi)>>)>>)
EmptyTree == Elem(<<"r", "o", "o", "t">>, {}, <<>>)
Entries ==
    {[path |-> p, state |-> "ok", xml |-> x] :
        p \in {FileOne, FileNotXml, FileThree}, x \in {GoodTree, EmptyTree}}
    \cup {[path |-> p, state |-> st, xml |-> EmptyTree] :
        p \in {FileOne, FileNotXml, FileThree}, st \in {"unreadable", "malformed"}}
Dirs ==
    {d \in SeqsUpTo(Entries, MaxDocs) :
        \A i, j \in 1..Len(d) : d[i].path = d[j].path => i = j}

\* the columns a configuration is made of
ColumnChoices ==
    { ExtractXmlPath(<<"t", "1">>, PathType("PathText", try_from(<<"a">>)), None),
      ExtractXmlPath(<<"t", "2">>, PathType("PathAttr", try_from(<<"a", ".", "b">>)),
                     Some(<<"d">>)),
      TextColumn(<<"t", "3">>, <<"N", "/", "A">>),
      IntrinsicFilePath(<<"t", "4">>) }

RunInit ==
    /\ config \in SeqsUpTo(ColumnChoices, MaxCols)
    /\ dir \in Dirs
    /\ filter \in BOOLEAN
    /\ pc = "header" /\ di = 0 /\ ci = 0
    /\ buf = <<>> /\ file = <<>>
    /\ result = NotReturned

\* run returns r: csv_writter is dropped and flushes its buffer to the file
Return(r) ==
    /\ result' = r
    /\ pc' = "done"
    /\ file' = file \o buf
    /\ buf' = <<>>
    /\ UNCHANGED <<config, dir, filter, di, ci>>

RECURSIVE WriteFields(_, _)
WriteFields(b, vs) ==
    IF vs = <<>> THEN b ELSE WriteFields(write_field(b, vs[1]), Tail(vs))

\* main.rs 81-88: the titles, then the end of the record
WriteHeader ==
    /\ pc = "header"
    /\ buf' = write_record(WriteFields(buf, [i \in 1..Len(config) |-> config[i].title]))
    /\ pc' = "read_dir"
    /\ UNCHANGED <<config, dir, filter, di, ci, file, result>>
    /\ UNCHANGED <<pathVars, extractVars>>

\* main.rs 90-92: read_dir succeeds
ReadDir ==
    /\ pc = "read_dir"
    /\ pc' = "next_item"
    /\ UNCHANGED <<config, dir, filter, di, ci, buf, file, result>>
    /\ UNCHANGED <<pathVars, extractVars>>

\* main.rs 90-92: read_dir fails
ReadDirFails ==
    /\ pc = "read_dir"
    /\ Return(RunErr("Failed to read xml directory", <<>>, NoErr))
    /\ UNCHANGED <<pathVars, extractVars>>

\* main.rs 94-104: the next entry is skipped for its extension
SkipItem ==
    /\ pc = "next_item"
    /\ di < Len(dir)
    /\ Skipped(dir[di + 1])
    /\ di' = di + 1
    /\ UNCHANGED <<config, dir, filter, pc, ci, buf, file, result>>
    /\ UNCHANGED <<pathVars, extractVars>>

\* main.rs 94-121: the next entry is opened and parsed
OpenItem ==
    /\ pc = "next_item"
    /\ di < Len(dir)
    /\ ~Skipped(dir[di + 1])
    /\ dir[di + 1].state = "ok"
    /\ di' = di + 1
    /\ ci' = 0
    /\ pc' = "columns"
    /\ UNCHANGED <<config, dir, filter, buf, file, result>>
    /\ UNCHANGED <<pathVars, extractVars>>

\* main.rs 109-121: the next entry cannot be opened, or is not XML
OpenItemFails ==
    /\ pc = "next_item"
    /\ di < Len(dir)
    /\ ~Skipped(dir[di + 1])
    /\ dir[di + 1].state # "ok"
    /\ Return(RunErr(IF dir[di + 1].state = "unreadable"
                     THEN "Failed to open xml file" ELSE "Failed to parse xml file",
                     dir[di + 1].path, NoErr))
    /\ UNCHANGED <<pathVars, extractVars>>

\* a mutant of ColumnError: the document is given up and the next one is taken
ColumnError_skip_document(e) ==
    /\ pc' = "next_item"
    /\ UNCHANGED <<config, dir, filter, di, ci, buf, file, result>>

\* main.rs 131-136: the ? on the value of a column returns the error
ColumnError(e) == Return(e)

\* main.rs 123-150: the value of the next column is written as a field, or the
\* error is returned
ResolveColumn ==
    /\ pc = "columns"
    /\ ci < Len(config)
    /\ LET v == ColumnValue(config[ci + 1], dir[di].xml, dir[di].path)
       IN  IF v.ok
           THEN /\ buf' = write_field(buf, v.val)
                /\ ci' = ci + 1
                /\ UNCHANGED <<config, dir, filter, pc, di, file, result>>
           ELSE ColumnError(v)
    /\ UNCHANGED <<pathVars, extractVars>>

\* main.rs 152-154: the end of the record of the document
WriteRecord ==
    /\ pc = "columns"
    /\ ci = Len(config)
    /\ buf' = write_record(buf)
    /\ pc' = "next_item"
    /\ UNCHANGED <<config, dir, filter, di, ci, file, result>>
    /\ UNCHANGED <<pathVars, extractVars>>

\* main.rs 157: no entry is left, Ok(())
Finish ==
    /\ pc = "next_item"
    /\ di = Len(dir)
    /\ Return(Ok(<<>>))
    /\ UNCHANGED <<pathVars, extractVars>>

Init == PathIdle /\ ExtractIdle /\ RunInit
Next ==
    \/ WriteHeader
    \/ ReadDir
    \/ ReadDirFails
    \/ SkipItem
    \/ OpenItem
    \/ OpenItemFails
    \/ ResolveColumn
    \/ WriteRecord
    \/ Finish
Spec == Init /\ [][Next]_vars

(***************************************************************************)
(* The claims about the run, checked under Spec.                           *)
(***************************************************************************)
\* everything written so far, in the file or still in the writer
Written == file \o buf

\* the records of a sequence of fields and terminators: the fields before each
\* terminator, and the fields after the last one
RECURSIVE RecordsOf(_, _)
RecordsOf(toks, cur) ==
    IF toks = <<>> THEN <<>>
    ELSE IF toks[1].kind = "terminator" THEN <<cur>> \o RecordsOf(Tail(toks), <<>>)
    ELSE RecordsOf(Tail(toks), Append(cur, toks[1].v))
RECURSIVE Unterminated(_, _)
Unterminated(toks, cur) ==
    IF toks = <<>> THEN cur
    ELSE IF toks[1].kind = "terminator" THEN Unterminated(Tail(toks), <<>>)
    ELSE Unterminated(Tail(toks), Append(cur, toks[1].v))

\* the entries of the directory that are not skipped, in order
Taken == SelectSeq(dir, LAMBDA e : ~Skipped(e))
\* the row of a document: the value of every column, in configuration order
RowOf(entry) == [k \in 1..Len(config) |-> ColumnValue(config[k], entry.xml, entry.path).val]

\* C1: the output never holds a partial row: when the run has returned, every
\* field in the file belongs to a terminated record, so the fields of a
\* document one of whose columns failed are not in the file.
C1_NoPartialRow == pc = "done" => Unterminated(file, <<>>) = <<>>

\* C4: when the value of a column fails, the run returns the error in that
\* very step, with nothing more written, no other column resolved and no other
\* document taken; and once the run has returned nothing happens any more.
C4_ErrorStopsRun ==
    [][ /\ ( /\ pc = "columns" /\ ci < Len(config)
             /\ ~ColumnValue(config[ci + 1], dir[di].xml, dir[di].path).ok )
            => /\ pc' = "done"
               /\ ~result'.ok
               /\ result'.err.kind = "Failed to extract column from xml file"
               /\ result'.err.a = dir[di].path
               /\ di' = di /\ ci' = ci
               /\ file' \o buf' = file \o buf
        /\ pc = "done" => UNCHANGED vars ]_vars

\* C4 witness: the run returned the error of the first of two columns of the
\* first of two documents
C4_Witness ==
    /\ pc = "done"
    /\ result.err.kind = "Failed to extract column from xml file"
    /\ Len(config) = 2 /\ ci = 0
    /\ Len(dir) = 2 /\ di = 1
    /\ RecordsOf(Written, <<>>) = <<[k \in 1..2 |-> config[k].title]>>

\* C5: the first record written is the header, the titles in configuration
\* order, and nothing is written before it; the records after it are the rows
\* of the documents taken, in directory order, each with one field per column,
\* the k-th being the value of the k-th column for that document; a run that
\* ends with Ok has written one row for every document taken.
C5_HeaderThenRows ==
    LET recs == RecordsOf(Written, <<>>)
    IN  /\ pc = "header" => Written = <<>>
        /\ pc \notin {"header", "off"} =>
              /\ Len(recs) >= 1
              /\ recs[1] = [k \in 1..Len(config) |-> config[k].title]
              /\ Len(recs) - 1 <= Len(Taken)
              /\ \A j \in 1..(Len(recs) - 1) :
                    /\ Len(recs[j + 1]) = Len(config)
                    /\ recs[j + 1] = RowOf(Taken[j])
        /\ (pc = "done" /\ result.ok) =>
              /\ Len(recs) = Len(Taken) + 1
              /\ Unterminated(Written, <<>>) = <<>>

\* C5 witness: a run ended with Ok after a header of two titles and the two
\* different rows of two documents
C5_Witness ==
    /\ pc = "done" /\ result.ok
    /\ Len(config) = 2
    /\ Len(RecordsOf(file, <<>>)) = 3
    /\ RecordsOf(file, <<>>)[2] # RecordsOf(file, <<>>)[3]
    /\ RecordsOf(file, <<>>)[2][1] # RecordsOf(file, <<>>)[2][2]

====
